---- MODULE Spec2Model ----
(***************************************************************************)
(* Model of src/src/extension.ts: the rpmlint diagnostic publisher (lint,  *)
(* its line / close / error callbacks), the activation sequence with the   *)
(* two process probes, and the language-client session.                    *)
(*                                                                         *)
(* Text is modelled as sequences of one-character strings, so that the     *)
(* regular expression of lint() is executed character by character.        *)
(***************************************************************************)
EXTENDS Integers, Sequences, FiniteSets, TLC

(***************************************************************************)
(* Bounds of the model.                                                    *)
(***************************************************************************)
\* most lint runs ever spawned in one behaviour
MaxRuns == 2
\* most stdout lines one linter process emits (LintSpec)
MaxOut == 1
\* most stdout lines one linter process emits (StreamSpec)
MaxStream == 2
\* most lines a document has
MaxLineCount == 3
\* longest free text after "<path>:" in the lines of ParseSpec
MaxTail == 4
\* most stdout lines one linter process emits (ExampleSpec)
MaxExampleOut == 3

(***************************************************************************)
(* Characters and character classes of the JavaScript regular expression.  *)
(***************************************************************************)
Digits == {"0", "1", "2", "3", "4", "5", "6", "7", "8", "9"}

WhiteSpace == {" "}

\* the characters String.replace escapes at line 93: . * + ? ^ $ { } ( ) | [ ] \
RegexSpecial == {".", "*", "+", "?", "^", "$", "{", "}", "(", ")", "|", "[", "]", "\\"}

DigitValue(c) ==
    CASE c = "0" -> 0 [] c = "1" -> 1 [] c = "2" -> 2 [] c = "3" -> 3
      [] c = "4" -> 4 [] c = "5" -> 5 [] c = "6" -> 6 [] c = "7" -> 7
      [] c = "8" -> 8 [] c = "9" -> 9

\* Number("<digits>")
RECURSIVE ToNumber(_)
ToNumber(ds) ==
    IF ds = << >> THEN 0
    ELSE 10 * ToNumber(SubSeq(ds, 1, Len(ds) - 1)) + DigitValue(ds[Len(ds)])

Min(a, b) == IF a < b THEN a ELSE b

Max(a, b) == IF a > b THEN a ELSE b

(***************************************************************************)
(* filePath.replace(/[.*+?^${}()|[\]\\]/g, '\\$&') and the pattern built   *)
(* from it.                                                                *)
(***************************************************************************)
\* the mutant: the path is put into the pattern unescaped
EscapeNothing(path) == path

\* escapedFilePath: a backslash before every special character
RECURSIVE EscapeRegex(_)
EscapeRegex(path) ==
    IF path = << >> THEN << >>
    ELSE (IF Head(path) \in RegexSpecial THEN <<"\\", Head(path)>> ELSE <<Head(path)>>)
         \o EscapeRegex(Tail(path))

\* The atoms the regex engine reads from the path part of the pattern source:
\* "\c" is the literal c, a bare "." is any character, another character is
\* itself (the other special characters never occur bare in the model's paths).
RECURSIVE PathAtoms(_)
PathAtoms(src) ==
    IF src = << >> THEN << >>
    ELSE IF Head(src) = "\\" /\ Len(src) >= 2
         THEN <<[any |-> FALSE, ch |-> src[2]]>> \o PathAtoms(SubSeq(src, 3, Len(src)))
         ELSE <<[any |-> Head(src) = ".", ch |-> Head(src)]>> \o PathAtoms(Tail(src))

\* ^<atoms> matches the start of the line
AtomsMatch(atoms, line) ==
    /\ Len(line) >= Len(atoms)
    /\ \A i \in 1..Len(atoms) : atoms[i].any \/ line[i] = atoms[i].ch

\* end (exclusive) of the longest run of characters of class cls from position p
RunEnd(line, p, cls) ==
    CHOOSE q \in p..(Len(line) + 1) :
        /\ \A j \in p..(q - 1) : line[j] \in cls
        /\ (q = Len(line) + 1 \/ line[q] \notin cls)

\* end (exclusive) of the longest run of \S characters from position p
NonSpaceEnd(line, p) ==
    CHOOSE q \in p..(Len(line) + 1) :
        /\ \A j \in p..(q - 1) : line[j] \notin WhiteSpace
        /\ (q = Len(line) + 1 \/ line[q] \in WhiteSpace)

NoMatch == [matched |-> FALSE, hasLine |-> FALSE, line |-> << >>,
            severity |-> "", body |-> << >>]

\* \s*(?<severity>\S)+:\s*(?<body>.+)$ from position p.  \s* takes the whole
\* white run (a shorter one leaves a white character for \S).  (\S)+ is greedy
\* and gives characters back until a ":" follows that still has text after it;
\* the group keeps its last repetition.  The second \s* gives back one
\* character when it has eaten the whole rest of the line.
MatchRest(line, p, hasLine, digits) ==
    LET s == RunEnd(line, p, WhiteSpace)
        e == NonSpaceEnd(line, s)
        ks == {k \in (s + 1)..(e - 1) : line[k] = ":" /\ k < Len(line)}
    IN  IF ks = {} THEN NoMatch
        ELSE LET k == CHOOSE x \in ks : \A y \in ks : y <= x
                 b == RunEnd(line, k + 1, WhiteSpace)
             IN  [matched |-> TRUE, hasLine |-> hasLine, line |-> digits,
                  severity |-> line[k - 1],
                  body |-> IF b <= Len(line) THEN SubSeq(line, b, Len(line))
                           ELSE <<line[Len(line)]>>]

\* diagnosticPattern.exec(line):
\* ^<escaped path>:(?:(?<line>\d+):)?\s*(?<severity>\S)+:\s*(?<body>.+)$
\* The optional group is tried first with the whole digit run (a shorter run
\* is followed by a digit, not ":"), then skipped.
PatternExec(patternPath, line) ==
    LET atoms == PathAtoms(patternPath)
        n == Len(atoms)
    IN  IF ~(AtomsMatch(atoms, line) /\ Len(line) > n /\ line[n + 1] = ":")
        THEN NoMatch
        ELSE LET p0 == n + 2
                 d == RunEnd(line, p0, Digits)
                 withLine ==
                     IF d > p0 /\ d <= Len(line) /\ line[d] = ":"
                     THEN MatchRest(line, d + 1, TRUE, SubSeq(line, p0, d - 1))
                     ELSE NoMatch
             IN  IF withLine.matched THEN withLine
                 ELSE MatchRest(line, p0, FALSE, << >>)

\* SEVERITY[match.groups?.severity ?? 'W'] ?? vscode.DiagnosticSeverity.Warning
SeverityOf(c) ==
    IF c = "W" THEN "Warning" ELSE IF c = "E" THEN "Error" ELSE "Warning"

\* the mutant: the line number is used unclamped (only made 0-based)
SafeLineNumberUnclamped(lineNumber, documentLineCount) == lineNumber

\* Math.min(Math.max(lineNumber, 0), Math.max(document.lineCount - 1, 0))
SafeLineNumber(lineNumber, documentLineCount) ==
    Min(Max(lineNumber, 0), Max(documentLineCount - 1, 0))

\* the body of the reader's 'line' callback: the diagnostics it pushes (none or one)
LineDiagnostics(filePath, documentLineCount, line) ==
    LET match == PatternExec(EscapeRegex(filePath), line)
    IN  IF ~match.matched THEN << >>
        ELSE LET lineNumber == IF match.hasLine THEN ToNumber(match.line) - 1 ELSE 0
             IN  <<[line |-> SafeLineNumber(lineNumber, documentLineCount),
                    message |-> match.body,
                    severity |-> SeverityOf(match.severity)]>>

(***************************************************************************)
(* Documents.  "a" and "b" are spec files on disk, the path of "b" has the *)
(* path of "a" as a prefix; "n" is a plain-text file on disk; "g" is a     *)
(* spec file shown from a revision (scheme "git"); "u" is an unsaved new   *)
(* buffer in spec-file mode (scheme "untitled"); "p" is the spec file      *)
(* /ws/pkg.spec.                                                           *)
(***************************************************************************)
Docs == {"a", "b", "n", "g", "u", "p"}

\* vscode.workspace.textDocuments is iterated in this order
DocOrder == <<"a", "b", "n", "g", "u", "p">>

fsPath(d) ==
    CASE d = "a" -> <<"/", "a", ".", "s">>
      [] d = "b" -> <<"/", "a", ".", "s", "x">>
      [] d = "n" -> <<"/", "n">>
      [] d = "g" -> <<"/", "g", ".", "s">>
      [] d = "u" -> <<"U", "1">>
      [] d = "p" -> <<"/", "w", "s", "/", "p", "k", "g", ".", "s", "p",
                      "e", "c">>

languageId(d) == IF d = "n" THEN "plaintext" ELSE "rpm-spec"

scheme(d) ==
    CASE d = "g" -> "git"
      [] d = "u" -> "untitled"
      [] OTHER -> "file"

isUntitled(d) == d = "u"

\* MODE, lines 7-10
MODE == [language |-> "rpm-spec", scheme |-> "file"]

\* the exit codes a probe's 'exit' event carries; NullCode is null (the
\* process was ended by a signal)
NullCode == -1

ExitCodes == {NullCode, 0, 1}

\* !exitCode
Falsy(code) == code = NullCode \/ code = 0

\* the values of the rpmspec.lspPath setting
LspPaths == {"rpm_lsp_server", "/opt/rpm_lsp"}

\* what a linter run on document d prints, line by line
OutTails == { <<":", "2", ":", "E", ":", "x">> }

OutLines(d) == {fsPath(d) \o t : t \in OutTails}

(***************************************************************************)
(* State.                                                                  *)
(***************************************************************************)
VARIABLES
    lintFlag,     \* the rpmspec.lint setting as it is now
    cfgLint,      \* rpmspec.lint in the configuration object read by activate()
    lspEnabled,   \* rpmspec.lsp as read by activate()
    lspPath,      \* rpmspec.lspPath as read by activate()
    sanity,       \* the checkSanity promise: [state, code]
    lspProbe,     \* the checkLspAvailable promise: [state, code]
    subscribed,   \* the open / save / close handlers are registered
    warnings,     \* warnings shown: 0 for the sanity probe, r for lint run r
    open,         \* the open documents
    lineCount,    \* document.lineCount of the documents lint reads it of
    diagnostics,  \* the DiagnosticCollection: document -> sequence of diagnostics
    runs,         \* the lint invocations made so far, in spawn order
    lspClient,    \* the module-level lspClient
    lspTrace,     \* the start / stop / deactivate calls in order
    deactivated,  \* deactivate() has run
    ev            \* the event handled last

vars == <<lintFlag, cfgLint, lspEnabled, lspPath, sanity, lspProbe, subscribed,
          warnings, open, lineCount, diagnostics, runs, lspClient, lspTrace,
          deactivated, ev>>

lintVars == <<subscribed, warnings, diagnostics, runs>>

lspVars == <<lspProbe, lspClient, lspTrace>>

configVars == <<cfgLint, lspEnabled, lspPath>>

Event(kind, d, r, line, lc) ==
    [kind |-> kind, doc |-> d, run |-> r, line |-> line, lc |-> lc]

NoClient == [started |-> FALSE, command |-> "", args |-> << >>]

\* Map.set and Map.delete on the diagnostic collection
MapSet(m, k, v) == [x \in (DOMAIN m) \cup {k} |-> IF x = k THEN v ELSE m[x]]

MapDelete(m, k) == [x \in (DOMAIN m) \ {k} |-> m[x]]

EmptyMap == [x \in {} |-> << >>]

(***************************************************************************)
(* lint(document), lines 71-122: the synchronous part.  It works on the    *)
(* pair st = [runs, diagnostics] so that activate() can call it once per   *)
(* open document.  spawnOk says whether cp.spawn finds the executable.     *)
(***************************************************************************)
\* the mutant: a new run starts from the diagnostics the document already has
NewArrayMerging(dg, d) == IF d \in DOMAIN dg THEN dg[d] ELSE << >>

\* const array: vscode.Diagnostic[] = []
NewArray(dg, d) == << >>

NewRun(dg, d, spawnOk) ==
    [doc |-> d, array |-> NewArray(dg, d), hist |-> << >>,
     failed |-> ~spawnOk, closed |-> FALSE, errored |-> FALSE]

\* the mutant: the filter does not look at the language of the document
IsLintableAnyLanguage(d) == ~(scheme(d) # MODE.scheme \/ isUntitled(d))

\* the filter of lines 72-78
IsLintable(d) ==
    /\ languageId(d) = MODE.language
    /\ ~(scheme(d) # MODE.scheme \/ isUntitled(d))

\* the mutant: with linting disabled lint() leaves the document's set alone
DisabledKeeps(dg, d) == dg

\* diagnostics.delete(document.uri), line 82
DisabledDeletes(dg, d) == MapDelete(dg, d)

Lint(st, d, enabled, spawnOk) ==
    IF ~IsLintable(d) THEN st
    ELSE IF ~enabled
         THEN [st EXCEPT !.diagnostics = DisabledDeletes(st.diagnostics, d)]
         ELSE [st EXCEPT !.runs = Append(st.runs, NewRun(st.diagnostics, d, spawnOk))]

\* textDocuments.forEach(doc => lint(doc))
RECURSIVE LintAll(_, _, _, _, _)
LintAll(st, docs, isOpen, enabled, spawnOk) ==
    IF docs = << >> THEN st
    ELSE LintAll(IF Head(docs) \in isOpen
                 THEN Lint(st, Head(docs), enabled, spawnOk[Head(docs)])
                 ELSE st,
                 Tail(docs), isOpen, enabled, spawnOk)

WouldSpawn(d) == IsLintable(d) /\ lintFlag

\* whether cp.spawn finds the executable, for each process that lint() spawns
\* when it is called for the documents ds (TRUE where none is spawned)
SpawnOutcomes(ds) ==
    LET spawned == {d \in ds : WouldSpawn(d)}
    IN  {[d \in Docs |-> IF d \in spawned THEN f[d] ELSE TRUE] : f \in [spawned -> BOOLEAN]}

(***************************************************************************)
(* Init: the state when activate() returns (lines 132-157): both probes    *)
(* are spawned, nothing is registered.                                     *)
(***************************************************************************)
Init ==
    /\ lintFlag \in BOOLEAN
    /\ cfgLint = lintFlag
    /\ lspEnabled \in BOOLEAN
    /\ lspPath \in LspPaths
    /\ sanity = [state |-> "pending", code |-> 0]
    /\ lspProbe = [state |-> IF lspEnabled THEN "pending" ELSE "skipped", code |-> 0]
    /\ subscribed = FALSE
    /\ warnings = {}
    /\ open = {}
    /\ lineCount \in [{x \in Docs : IsLintable(x)} -> 1..MaxLineCount]
    /\ diagnostics = EmptyMap
    /\ runs = << >>
    /\ lspClient = NoClient
    /\ lspTrace = << >>
    /\ deactivated = FALSE
    /\ ev = Event("activate", "a", 0, << >>, 0)

(***************************************************************************)
(* The linter sanity probe resolves: checkSanity (25-34) and the           *)
(* continuation in activate (138-151).                                     *)
(***************************************************************************)
\* resolve(null) in the 'error' handler, line 31
ErrorResolvesWith == NullCode

\* if (!exitCode && config.get<boolean>('lint', true)), line 139
SanityPasses(exitCode) == Falsy(exitCode) /\ cfgLint

SanityThen(exitCode, spawnOk) ==
    IF SanityPasses(exitCode)
    THEN LET st == LintAll([runs |-> runs, diagnostics |-> EmptyMap],
                           DocOrder, open, lintFlag, spawnOk)
         IN  /\ subscribed' = TRUE
             /\ runs' = st.runs
             /\ diagnostics' = st.diagnostics
    ELSE UNCHANGED <<subscribed, runs, diagnostics>>

SanityExit(code) ==
    /\ ~deactivated
    /\ sanity.state = "pending"
    /\ sanity' = [state |-> "exit", code |-> code]
    /\ \E spawnOk \in SpawnOutcomes(IF SanityPasses(code) THEN open ELSE {}) :
          SanityThen(code, spawnOk)
    /\ ev' = Event("sanity", "a", 0, << >>, 0)
    /\ UNCHANGED <<lintFlag, configVars, lspVars, warnings, open, lineCount, deactivated>>

SanityError ==
    /\ ~deactivated
    /\ sanity.state = "pending"
    /\ sanity' = [state |-> "error", code |-> ErrorResolvesWith]
    /\ warnings' = warnings \cup {0}
    /\ \E spawnOk \in SpawnOutcomes(IF SanityPasses(ErrorResolvesWith) THEN open ELSE {}) :
          SanityThen(ErrorResolvesWith, spawnOk)
    /\ ev' = Event("sanity", "a", 0, << >>, 0)
    /\ UNCHANGED <<lintFlag, configVars, lspVars, open, lineCount, deactivated>>

(***************************************************************************)
(* Document events.  The host raises them whether or not a handler is      *)
(* registered; the handlers of lines 142-147 run only once subscribed.     *)
(***************************************************************************)
LintTrigger(d, spawnOk) ==
    IF subscribed
    THEN LET st == Lint([runs |-> runs, diagnostics |-> diagnostics], d, lintFlag, spawnOk)
         IN  /\ runs' = st.runs
             /\ diagnostics' = st.diagnostics
    ELSE UNCHANGED <<runs, diagnostics>>

\* onDidOpenTextDocument(doc => lint(doc)), line 142
OpenDocument(d) ==
    /\ ~deactivated
    /\ d \notin open
    /\ (subscribed /\ WouldSpawn(d)) => Len(runs) < MaxRuns
    /\ open' = open \cup {d}
    /\ \E spawnOk \in SpawnOutcomes(IF subscribed THEN {d} ELSE {}) :
          LintTrigger(d, spawnOk[d])
    /\ ev' = Event("open", d, IF subscribed /\ WouldSpawn(d) THEN Len(runs) + 1 ELSE 0,
                   << >>, 0)
    /\ UNCHANGED <<lintFlag, configVars, sanity, lspVars, subscribed, warnings,
                   lineCount, deactivated>>

\* onDidSaveTextDocument(doc => lint(doc)), line 143
SaveDocument(d) ==
    /\ ~deactivated
    /\ d \in open
    /\ (subscribed /\ WouldSpawn(d)) => Len(runs) < MaxRuns
    /\ \E spawnOk \in SpawnOutcomes(IF subscribed THEN {d} ELSE {}) :
          LintTrigger(d, spawnOk[d])
    /\ ev' = Event("save", d, IF subscribed /\ WouldSpawn(d) THEN Len(runs) + 1 ELSE 0,
                   << >>, 0)
    /\ UNCHANGED <<lintFlag, configVars, sanity, lspVars, subscribed, warnings,
                   open, lineCount, deactivated>>

\* the mutant: the close handler looks at the lint setting first
CloseDeletesIfEnabled(dg, d) == IF lintFlag THEN MapDelete(dg, d) ELSE dg

\* diagnostics.delete(document.uri), line 146
CloseDeletes(dg, d) == MapDelete(dg, d)

\* onDidCloseTextDocument, lines 145-147
CloseDocument(d) ==
    /\ ~deactivated
    /\ d \in open
    /\ open' = open \ {d}
    /\ diagnostics' = IF subscribed THEN CloseDeletes(diagnostics, d) ELSE diagnostics
    /\ ev' = Event("close", d, 0, << >>, 0)
    /\ UNCHANGED <<lintFlag, configVars, sanity, lspVars, subscribed, warnings,
                   lineCount, runs, deactivated>>

\* the user edits an open document: document.lineCount (line 101) changes
EditDocument(d, n) ==
    /\ ~deactivated
    /\ d \in open /\ IsLintable(d)
    /\ n # lineCount[d]
    /\ lineCount' = [lineCount EXCEPT ![d] = n]
    /\ ev' = Event("edit", d, 0, << >>, n)
    /\ UNCHANGED <<lintFlag, configVars, sanity, lspVars, subscribed, warnings,
                   open, diagnostics, runs, deactivated>>

\* the user changes rpmspec.lint; lint() reads it afresh at line 80-81
ChangeLintSetting ==
    /\ ~deactivated
    /\ lintFlag' = ~lintFlag
    /\ ev' = Event("config", "a", 0, << >>, 0)
    /\ UNCHANGED <<configVars, sanity, lspVars, subscribed, warnings, open,
                   lineCount, diagnostics, runs, deactivated>>

(***************************************************************************)
(* The callbacks of one lint run r, lines 96-121.                          *)
(***************************************************************************)
\* the mutant: a record the array already holds is not added again
PushNew(array, items) ==
    IF items # << >> /\ \E i \in 1..Len(array) : array[i] = items[1]
    THEN array ELSE array \o items

\* array.push(diagnostic), line 110, for the records of one line
Push(array, items) == array \o items

\* reader.on('line', ...), lines 96-112
ReaderLine(r, line) ==
    /\ ~deactivated
    /\ ~runs[r].failed /\ ~runs[r].closed
    /\ LET d == runs[r].doc
       IN  /\ runs' = [runs EXCEPT
                ![r].array = Push(@, LineDiagnostics(fsPath(d), lineCount[d], line)),
                ![r].hist = Append(@, <<line, lineCount[d]>>)]
           /\ ev' = Event("line", d, r, line, lineCount[d])
    /\ UNCHANGED <<lintFlag, configVars, sanity, lspVars, subscribed, warnings,
                   open, lineCount, diagnostics, deactivated>>

\* the mutant: a run publishes only while no later run of the document exists
PublishIfLatest(dg, r) ==
    IF \E q \in (r + 1)..Len(runs) : runs[q].doc = runs[r].doc
    THEN dg ELSE MapSet(dg, runs[r].doc, runs[r].array)

\* the mutant: the records are added to the set the document already has
PublishMerging(dg, r) ==
    MapSet(dg, runs[r].doc,
           (IF runs[r].doc \in DOMAIN dg THEN dg[runs[r].doc] ELSE << >>) \o runs[r].array)

\* the mutant: publishing replaces the whole collection by the document's set
PublishAlone(dg, r) == [x \in {runs[r].doc} |-> runs[r].array]

\* diagnostics.set(document.uri, array), line 115
Publish(dg, r) == MapSet(dg, runs[r].doc, runs[r].array)

\* reader.on('close', ...), lines 114-116
ReaderClose(r) ==
    /\ ~deactivated
    /\ ~runs[r].closed
    /\ runs' = [runs EXCEPT ![r].closed = TRUE]
    /\ diagnostics' = Publish(diagnostics, r)
    /\ ev' = Event("rclose", runs[r].doc, r, << >>, 0)
    /\ UNCHANGED <<lintFlag, configVars, sanity, lspVars, subscribed, warnings,
                   open, lineCount, deactivated>>

\* the mutant: the error handler leaves the document's set as it is
ErrorKeeps(dg, r) == dg

\* diagnostics.set(document.uri, []), line 120
ErrorClears(dg, r) == MapSet(dg, runs[r].doc, << >>)

\* linter.on('error', ...), lines 118-121
LinterError(r) ==
    /\ ~deactivated
    /\ runs[r].failed /\ ~runs[r].errored
    /\ runs' = [runs EXCEPT ![r].errored = TRUE]
    /\ warnings' = warnings \cup {r}
    /\ diagnostics' = ErrorClears(diagnostics, r)
    /\ ev' = Event("rerror", runs[r].doc, r, << >>, 0)
    /\ UNCHANGED <<lintFlag, configVars, sanity, lspVars, subscribed, open,
                   lineCount, deactivated>>

(***************************************************************************)
(* The language-server probe and session, lines 124-130 and 157-192.       *)
(***************************************************************************)
\* the mutant: the server is started without the transport flag
ServerOptionsNoFlag(path) == [started |-> TRUE, command |-> path, args |-> << >>]

\* serverOptions, lines 163-170
ServerOptions(path) == [started |-> TRUE, command |-> path, args |-> <<"--stdio">>]

\* the mutant: the probe reports the server as available after a spawn error too
AvailableAlways(outcome) == TRUE

\* checkLspAvailable, lines 127-128: resolve(true) on 'exit', resolve(false) on 'error'
Available(outcome) == outcome = "exit"

\* the continuation of lines 157-185
LspThen(available) ==
    IF available
    THEN /\ lspClient' = ServerOptions(lspPath)
         /\ lspTrace' = Append(lspTrace, "start")
    ELSE UNCHANGED <<lspClient, lspTrace>>

\* the probe's process exits
LspProbeExit(code) ==
    /\ lspProbe.state = "pending"
    /\ lspProbe' = [state |-> "exit", code |-> code]
    /\ LspThen(Available("exit"))
    /\ ev' = Event("lspexit", "a", 0, << >>, code)
    /\ UNCHANGED <<lintFlag, configVars, sanity, lintVars, open, lineCount, deactivated>>

\* the probe's process cannot be spawned
LspProbeError ==
    /\ lspProbe.state = "pending"
    /\ lspProbe' = [state |-> "error", code |-> 0]
    /\ LspThen(Available("error"))
    /\ ev' = Event("lsperror", "a", 0, << >>, 0)
    /\ UNCHANGED <<lintFlag, configVars, sanity, lintVars, open, lineCount, deactivated>>

\* deactivate(), lines 188-192
Deactivate ==
    /\ ~deactivated
    /\ deactivated' = TRUE
    /\ lspTrace' = lspTrace \o <<"deactivate">>
                   \o (IF lspClient.started THEN <<"stop">> ELSE << >>)
    /\ ev' = Event("deactivate", "a", 0, << >>, 0)
    /\ UNCHANGED <<lintFlag, configVars, sanity, lintVars, open, lineCount,
                   lspProbe, lspClient>>

(***************************************************************************)
(* The program: every event, in any order.  The guards on Len bound the    *)
(* number of lint runs and of output lines.                                *)
(***************************************************************************)
NextLintOn(ds, codes) ==
    \/ \E code \in codes : SanityExit(code)
    \/ SanityError
    \/ \E d \in ds : OpenDocument(d)
    \/ \E d \in ds : SaveDocument(d)
    \/ \E d \in ds : CloseDocument(d)
    \/ ChangeLintSetting
    \/ \E r \in 1..Len(runs) : \E line \in OutLines(runs[r].doc) :
          Len(runs[r].hist) < MaxOut /\ ReaderLine(r, line)
    \/ \E r \in 1..Len(runs) : ReaderClose(r)
    \/ \E r \in 1..Len(runs) : LinterError(r)

NextEdit == \E d \in Docs, n \in 1..MaxLineCount : EditDocument(d, n)

NextLsp ==
    \/ \E code \in ExitCodes : LspProbeExit(code)
    \/ LspProbeError
    \/ Deactivate

NextLint == NextLintOn(Docs, ExitCodes)

Next == NextLint \/ NextEdit \/ NextLsp

Spec == Init /\ [][Next]_vars

(***************************************************************************)
(* LintSpec: the diagnostic publisher on the spec files "a" and "b", lsp   *)
(* being false at activation (line 153 returns), the extension staying     *)
(* active, every document keeping MaxLineCount lines and the sanity probe, *)
(* if it exits, exiting by itself (LspSpec has the probe ended by a        *)
(* signal).                                                                *)
(***************************************************************************)
InitLint ==
    /\ Init
    /\ ~lspEnabled /\ lspPath = "rpm_lsp_server"
    /\ \A d \in DOMAIN lineCount : lineCount[d] = MaxLineCount

NextLintSpecFiles == NextLintOn({"a", "b"}, ExitCodes \ {NullCode})

LintSpec == InitLint /\ [][NextLintSpecFiles]_vars

(***************************************************************************)
(* LspSpec: activation and shutdown with no document open: the two probes, *)
(* the setting and deactivate() in every order.                            *)
(***************************************************************************)
InitLsp == Init /\ \A d \in DOMAIN lineCount : lineCount[d] = MaxLineCount

NextLspSide ==
    \/ \E code \in ExitCodes : SanityExit(code)
    \/ SanityError
    \/ ChangeLintSetting
    \/ \E code \in ExitCodes : LspProbeExit(code)
    \/ LspProbeError
    \/ Deactivate

LspSpec == InitLsp /\ [][NextLspSide]_vars

(***************************************************************************)
(* FilterSpec: the diagnostic publisher with one spec file on disk and the *)
(* three documents the filter of lint() drops.                             *)
(***************************************************************************)
NextFilter == NextLintOn({"a", "n", "g", "u"}, ExitCodes \ {NullCode})

FilterSpec == InitLint /\ [][NextFilter]_vars

(***************************************************************************)
(* The states in which lint runs of one open document are in flight: the   *)
(* sanity probe exited with 0, the handlers are registered, the document   *)
(* was opened (run 1) and possibly saved (run 2).                          *)
(***************************************************************************)
InFlight(d, n) ==
    /\ lintFlag = TRUE /\ cfgLint = TRUE
    /\ lspEnabled = FALSE /\ lspPath = "rpm_lsp_server"
    /\ sanity = [state |-> "exit", code |-> 0]
    /\ lspProbe = [state |-> "skipped", code |-> 0]
    /\ subscribed = TRUE
    /\ warnings = {}
    /\ open = {d}
    /\ lineCount \in [{x \in Docs : IsLintable(x)} -> 1..MaxLineCount]
    /\ \A x \in DOMAIN lineCount : x # d => lineCount[x] = 1
    /\ diagnostics = EmptyMap
    /\ runs = [i \in 1..n |-> NewRun(EmptyMap, d, TRUE)]
    /\ lspClient = NoClient
    /\ lspTrace = << >>
    /\ deactivated = FALSE
    /\ ev = Event(IF n = 1 THEN "open" ELSE "save", d, n, << >>, 0)

(***************************************************************************)
(* ParseSpec: one run, one output line drawn from ParseLines, the document *)
(* edited at any moment.                                                   *)
(***************************************************************************)
TailChars == {":", " ", "E", "x", "3"}

RECURSIVE TailsUpTo(_)
TailsUpTo(n) ==
    IF n = 0 THEN {<< >>}
    ELSE LET T == TailsUpTo(n - 1)
         IN  T \cup {Append(t, c) : t \in T, c \in TailChars}

LineFields == {<< >>, <<"0", ":">>, <<"1", ":">>, <<"2", ":">>, <<"3", ":">>,
               <<"1", "2", ":">>, <<"2">>}

SeverityFields == {<< >>, <<"E">>, <<"W">>, <<"x">>, <<"E", "W">>}

Gaps == {<< >>, <<" ">>}

Separators == {<< >>, <<":">>}

Messages == {<< >>, <<"x">>, <<" ">>, <<"x", " ", "y">>, <<"x", ":", "y">>,
             <<"x", ":", " ", "y">>}

FieldTails ==
    {lf \o g1 \o sv \o sep \o g2 \o m :
        lf \in LineFields, g1 \in Gaps, sv \in SeverityFields,
        sep \in Separators, g2 \in Gaps, m \in Messages}

\* the starts of a line: the path and ":", the path alone, the path with its
\* "." replaced, the path after a blank, nothing
ParsePrefixes(d) ==
    { fsPath(d) \o <<":">>,
      fsPath(d),
      [i \in 1..Len(fsPath(d)) |-> IF fsPath(d)[i] = "." THEN "x" ELSE fsPath(d)[i]] \o <<":">>,
      <<" ">> \o fsPath(d) \o <<":">>,
      << >> }

ParseLines(d) ==
    {p \o t : p \in ParsePrefixes(d), t \in FieldTails \cup TailsUpTo(MaxTail)}

InitParse == \E d \in {"a", "b"} : InFlight(d, 1)

NextParse ==
    \/ /\ runs[1].hist = << >>
       /\ \E line \in ParseLines(runs[1].doc) : ReaderLine(1, line)
    \/ ReaderClose(1)
    \/ \E n \in 1..MaxLineCount : EditDocument(runs[1].doc, n)

ParseSpec == InitParse /\ [][NextParse]_vars

(***************************************************************************)
(* StreamSpec: the events of one document, "a", from the moment its first  *)
(* run is in flight until a second run has been triggered; the runs        *)
(* overlap and each reads up to MaxStream lines.                           *)
(***************************************************************************)
StreamLines == {fsPath("a") \o <<":", "3", ":", "W", ":", " ", "t">>,
                fsPath("a") \o <<":", "E", ":", " ", "m">>,
                <<"u">>}

InitStream == InFlight("a", 1)

NextStream ==
    \/ Len(runs) < 2 /\ OpenDocument("a")
    \/ Len(runs) < 2 /\ SaveDocument("a")
    \/ CloseDocument("a")
    \/ ChangeLintSetting
    \/ \E r \in 1..Len(runs) : \E line \in StreamLines :
          Len(runs[r].hist) < MaxStream /\ ReaderLine(r, line)
    \/ \E r \in 1..Len(runs) : ReaderClose(r)
    \/ \E r \in 1..Len(runs) : LinterError(r)

StreamSpec == InitStream /\ [][NextStream]_vars

(***************************************************************************)
(* ExampleSpec: the runs of /ws/pkg.spec, a document of 5 lines, whose     *)
(* linter prints lines of ExampleLines; the document is saved while its    *)
(* first run is in flight.                                                 *)
(***************************************************************************)
\* /ws/pkg.spec:3:W: trailing whitespace
ExampleLine1 ==
    <<"/", "w", "s", "/", "p", "k", "g", ".", "s", "p", "e", "c", ":", "3",
      ":", "W", ":", " ", "t", "r", "a", "i", "l", "i", "n", "g", " ", "w",
      "h", "i", "t", "e", "s", "p", "a", "c", "e">>

\* /ws/pkg.spec:E: macro undefined
ExampleLine2 ==
    <<"/", "w", "s", "/", "p", "k", "g", ".", "s", "p", "e", "c", ":", "E",
      ":", " ", "m", "a", "c", "r", "o", " ", "u", "n", "d", "e", "f", "i",
      "n", "e", "d">>

\* unrelated text
ExampleLine3 ==
    <<"u", "n", "r", "e", "l", "a", "t", "e", "d", " ", "t", "e", "x", "t">>

ExampleLines == {ExampleLine1, ExampleLine2, ExampleLine3}

InitExample ==
    /\ lintFlag = TRUE /\ cfgLint = TRUE
    /\ lspEnabled = FALSE /\ lspPath = "rpm_lsp_server"
    /\ sanity = [state |-> "exit", code |-> 0]
    /\ lspProbe = [state |-> "skipped", code |-> 0]
    /\ subscribed = TRUE
    /\ warnings = {}
    /\ open = {"p"}
    /\ lineCount = [x \in {y \in Docs : IsLintable(y)} |-> IF x = "p" THEN 5 ELSE 1]
    /\ diagnostics = EmptyMap
    /\ runs = <<NewRun(EmptyMap, "p", TRUE)>>
    /\ lspClient = NoClient
    /\ lspTrace = << >>
    /\ deactivated = FALSE
    /\ ev = Event("open", "p", 1, << >>, 0)

NextExample ==
    \/ Len(runs) < 2 /\ SaveDocument("p")
    \/ \E r \in 1..Len(runs) : \E line \in ExampleLines :
          Len(runs[r].hist) < MaxExampleOut /\ ReaderLine(r, line)
    \/ \E r \in 1..Len(runs) : ReaderClose(r)
    \/ \E r \in 1..Len(runs) : LinterError(r)

ExampleSpec == InitExample /\ [][NextExample]_vars

(***************************************************************************)
(* Helpers of the properties.                                              *)
(***************************************************************************)
IsPrefix(p, line) == Len(line) >= Len(p) /\ SubSeq(line, 1, Len(p)) = p

DigitOf(k) == CHOOSE c \in Digits : DigitValue(c) = k

\* the decimal numeral of n
RECURSIVE Decimal(_)
Decimal(n) == IF n < 10 THEN <<DigitOf(n)>> ELSE Decimal(n \div 10) \o <<DigitOf(n % 10)>>

\* the state right after the 'line' callback of a run has handled a line
LineHandled == ev.kind = "line"

\* what that callback added to the run's array (ParseSpec: one line per run)
Pushed == runs[ev.run].array

HasSet(d) == d \in DOMAIN diagnostics

\* the records a run's output gives, computed from the lines it has read
RECURSIVE RecordsOf(_, _)
RecordsOf(d, hist) ==
    IF hist = << >> THEN << >>
    ELSE RecordsOf(d, SubSeq(hist, 1, Len(hist) - 1))
         \o LineDiagnostics(fsPath(d), hist[Len(hist)][2], hist[Len(hist)][1])

(***************************************************************************)
(* C1.  If the sanity probe ends in a spawn error, a warning is shown, the *)
(* handlers are never registered, no linter is spawned and no diagnostic   *)
(* set exists.  The code resolves the promise with null, which line 139    *)
(* takes for success: TLC finds this violated.                             *)
(***************************************************************************)
C1_SpawnErrorDisablesLinting ==
    sanity.state = "error" =>
        /\ 0 \in warnings
        /\ ~subscribed
        /\ runs = << >>
        /\ diagnostics = EmptyMap

(***************************************************************************)
(* C2.  A line <path>:<n>:<sev>:<msg> with 1 <= n <= lineCount, <sev> one  *)
(* character other than ":" and blank, <msg> non-empty and not starting    *)
(* with a blank, gives one diagnostic: line n-1, message <msg>, severity   *)
(* Error for "E" and Warning otherwise.  (\S)+ runs over the ":" inside    *)
(* <msg>: TLC finds this violated.                                         *)
(***************************************************************************)
C2_WellFormedLineParsed ==
    LineHandled =>
        \A n \in 1..ev.lc : \A i \in 1..Len(ev.line) :
            LET msg == SubSeq(ev.line, i, Len(ev.line))
                head == fsPath(ev.doc) \o <<":">> \o Decimal(n) \o <<":">>
                sev == ev.line[Len(head) + 1]
            IN  ( /\ i = Len(head) + 3
                  /\ ev.line = head \o <<sev, ":">> \o msg
                  /\ sev \notin WhiteSpace \cup {":"}
                  /\ msg[1] \notin WhiteSpace )
                => Pushed = <<[line |-> n - 1, message |-> msg,
                               severity |-> IF sev = "E" THEN "Error" ELSE "Warning"]>>

(***************************************************************************)
(* C3.  The line index of a diagnostic is clamped: with n the number the   *)
(* pattern captured, an omitted n and n = 0 give index 0, n > lineCount    *)
(* gives lineCount - 1, and the index lies in [0, lineCount - 1] of the    *)
(* line count the document has when the line is handled.                   *)
(***************************************************************************)
C3_IndexClampedWhenHandled ==
    LineHandled =>
        LET m == PatternExec(EscapeRegex(fsPath(ev.doc)), ev.line)
            n == ToNumber(m.line)
        IN  m.matched =>
              /\ Len(Pushed) = 1
              /\ Pushed[1].line \in 0..(ev.lc - 1)
              /\ ~m.hasLine => Pushed[1].line = 0
              /\ (m.hasLine /\ n = 0) => Pushed[1].line = 0
              /\ (m.hasLine /\ n > ev.lc) => Pushed[1].line = ev.lc - 1
              /\ (m.hasLine /\ n \in 1..ev.lc) => Pushed[1].line = n - 1

\* C3's witness: a line whose number is beyond the last line has been clamped
C3_Witness ==
    /\ LineHandled
    /\ ev.lc = 2
    /\ ev.line = fsPath(ev.doc) \o <<":", "1", "2", ":", "E", ":", "x">>
    /\ Len(Pushed) = 1 /\ Pushed[1].line = 1

\* C3 as stated: moreover every published diagnostic lies inside the line
\* range the document has when it is published.  A document that shrinks
\* between the line event and the close event refutes it.
C3_PublishedInsideCurrentRange ==
    /\ C3_IndexClampedWhenHandled
    /\ ev.kind = "rclose" =>
          \A i \in 1..Len(diagnostics[ev.doc]) :
              diagnostics[ev.doc][i].line \in 0..(lineCount[ev.doc] - 1)

(***************************************************************************)
(* C4.  A line that does not begin with the document's path followed by    *)
(* the ":" that ends the path field gives no diagnostic and records        *)
(* nothing.                                                                *)
(***************************************************************************)
C4_ForeignLineIgnored ==
    (LineHandled /\ ~IsPrefix(fsPath(ev.doc) \o <<":">>, ev.line)) =>
        /\ Pushed = << >>
        /\ diagnostics = EmptyMap

\* C4's witness: a well-formed line of a longer path that starts with the
\* document's path has been read and dropped
C4_Witness ==
    /\ LineHandled
    /\ ev.doc = "a"
    /\ ev.line = fsPath("a") \o <<"x", ":", "x", ":", "y">>
    /\ PatternExec(EscapeRegex(fsPath("b")), ev.line).matched
    /\ Pushed = << >>

(***************************************************************************)
(* C5.  The close handler removes the document's diagnostic set, whatever  *)
(* the lint setting is.                                                    *)
(***************************************************************************)
C5_CloseRemovesSet ==
    (ev.kind = "close" /\ subscribed) => ~HasSet(ev.doc)

\* C5's witness: a document whose run had published records is closed while
\* linting is disabled
C5_Witness ==
    /\ ev.kind = "close" /\ subscribed /\ ~lintFlag
    /\ \E r \in 1..Len(runs) :
          runs[r].doc = ev.doc /\ runs[r].closed /\ runs[r].array # << >>
    /\ ~HasSet(ev.doc)

(***************************************************************************)
(* C6.  With the lint setting disabled, a lint trigger (open or save)      *)
(* spawns nothing and leaves no open document with diagnostics.  The code  *)
(* deletes the set of the triggering document only (line 82) and has no    *)
(* handler for the setting: TLC finds this violated.                       *)
(***************************************************************************)
C6_DisabledClearsAllOpen ==
    (subscribed /\ ~lintFlag /\ ev.kind \in {"open", "save"} /\ IsLintable(ev.doc)) =>
        /\ ev.run = 0
        /\ \A d \in open : ~HasSet(d) \/ diagnostics[d] = << >>

(***************************************************************************)
(* C7.  With rpmspec.lsp enabled, once the language-server probe has       *)
(* exited (with any code) one session exists, started with the configured  *)
(* server path and --stdio; deactivate() stops a session that exists       *)
(* exactly once, and stop is never called twice.                           *)
(***************************************************************************)
Count(seq, x) == Cardinality({i \in 1..Len(seq) : seq[i] = x})

StartedBeforeShutdown ==
    \E i, j \in 1..Len(lspTrace) :
        i < j /\ lspTrace[i] = "start" /\ lspTrace[j] = "deactivate"

C8_SameOutputSameRecords ==
    \A r1, r2 \in 1..Len(runs) :
        (runs[r1].doc = runs[r2].doc /\ runs[r1].hist = runs[r2].hist)
            => runs[r1].array = runs[r2].array

\* C8's witness: the second run started after the first had published, both
\* read the same two matching lines and both have closed
C8_Witness ==
    /\ Len(runs) = 2
    /\ runs[1].closed /\ runs[2].closed
    /\ Len(runs[1].hist) >= 2 /\ runs[1].hist = runs[2].hist
    /\ Len(runs[1].array) = 2 /\ runs[1].array[1] # runs[1].array[2]
    /\ HasSet("a") /\ diagnostics["a"] = runs[2].array

(***************************************************************************)
(* C9.  Overlapping runs of a document: starting a run leaves the other    *)
(* runs as they are, a run publishes its own records when its stream       *)
(* closes, and the set stays as the last close wrote it until a document   *)
(* close, a trigger or a spawn error writes it.                            *)
(***************************************************************************)
C9_CloseWrote ==
    ev.kind = "rclose" => (HasSet(ev.doc) /\ diagnostics[ev.doc] = runs[ev.run].array)

C9_LastCloseWins ==
    /\ []C9_CloseWrote
    /\ [][ /\ ev'.kind \in {"open", "save"} =>
                \A r \in 1..Len(runs) : runs'[r] = runs[r]
           /\ ev'.kind \in {"line", "sanity", "config"} => diagnostics' = diagnostics
           /\ (ev'.kind \in {"open", "save"} /\ lintFlag) => diagnostics' = diagnostics
         ]_vars

\* C9's witness: the run triggered first closes after the run triggered
\* second, with other records, and its records are the document's set
C9_Witness ==
    /\ ev.kind = "rclose"
    /\ \E q \in (ev.run + 1)..Len(runs) :
          /\ runs[q].doc = ev.doc /\ runs[q].closed /\ ~runs[q].failed
          /\ runs[q].array # runs[ev.run].array
    /\ runs[ev.run].array # << >>
    /\ diagnostics[ev.doc] = runs[ev.run].array

(***************************************************************************)
(* C10.  A document's set is empty or the whole record sequence of one     *)
(* run of the document whose stream has closed; the 'line' callback and    *)
(* the start of a run do not write the set.                                *)
(***************************************************************************)
C10_SetIsOneClosedRun ==
    \A d \in DOMAIN diagnostics :
        \/ diagnostics[d] = << >>
        \/ \E r \in 1..Len(runs) :
              /\ runs[r].doc = d /\ runs[r].closed
              /\ diagnostics[d] = RecordsOf(d, runs[r].hist)

C10_NoInterimPublication ==
    /\ []C10_SetIsOneClosedRun
    /\ [][ev'.kind = "line" => diagnostics' = diagnostics]_vars

\* C10's witness: a run that has read a matching line is still open while
\* the document's set holds the records of another, closed run
C10_Witness ==
    /\ HasSet("a") /\ diagnostics["a"] # << >>
    /\ \E r, q \in 1..Len(runs) :
          /\ runs[r].doc = "a" /\ ~runs[r].closed /\ runs[r].array # << >>
          /\ runs[q].doc = "a" /\ runs[q].closed
          /\ diagnostics["a"] = runs[q].array
          /\ runs[r].array # runs[q].array

(***************************************************************************)
(* C11.  A lint run whose process failed to spawn: its error handler shows *)
(* a warning, and right after each of its two events (error, stream close) *)
(* the document's set exists and is empty; in particular it is empty once  *)
(* both have been handled, in either order, no other run of the document   *)
(* being in flight, whatever an earlier run had published.                 *)
(***************************************************************************)
\* run q still has an event to come
Pending(q) == ~runs[q].closed \/ (runs[q].failed /\ ~runs[q].errored)

C11_SpawnFailureClears ==
    /\ \A r \in 1..Len(runs) : runs[r].errored => (runs[r].failed /\ r \in warnings)
    /\ (ev.kind \in {"rclose", "rerror"} /\ runs[ev.run].failed) =>
          (HasSet(ev.doc) /\ diagnostics[ev.doc] = << >>)

\* C11's witness: an earlier run of the document had published a record, the
\* next run failed to spawn, its stream closed and then its error was handled,
\* no run is in flight and the set is empty
C11_Witness ==
    /\ ev.kind = "rerror" /\ runs[ev.run].failed
    /\ runs[ev.run].errored /\ runs[ev.run].closed /\ ev.run \in warnings
    /\ \A q \in 1..Len(runs) : ~Pending(q)
    /\ \E q \in 1..(ev.run - 1) :
          runs[q].doc = ev.doc /\ ~runs[q].failed /\ runs[q].array # << >>
    /\ ev.doc \in open
    /\ diagnostics[ev.doc] = << >>

(***************************************************************************)
(* C12.  lint(document) does nothing for a document that is not a spec     *)
(* file, whose scheme is not "file" or that is untitled: an open or save   *)
(* of such a document spawns no run and leaves the diagnostic map as it    *)
(* is, with the lint setting on or off; no run and no set ever exists for  *)
(* such a document (the loop over the open documents at activation         *)
(* included).                                                              *)
(***************************************************************************)
Filtered(d) == languageId(d) # "rpm-spec" \/ scheme(d) # "file" \/ isUntitled(d)

C12_NothingOfFiltered ==
    /\ \A r \in 1..Len(runs) : ~Filtered(runs[r].doc)
    /\ \A d \in DOMAIN diagnostics : ~Filtered(d)

C12_FilteredIsNoOp ==
    /\ []C12_NothingOfFiltered
    /\ [][(ev'.kind \in {"open", "save"} /\ Filtered(ev'.doc)) =>
              (runs' = runs /\ diagnostics' = diagnostics /\ warnings' = warnings)]_vars

\* C12's witness: with the handlers registered and the setting off, the
\* untitled buffer has been saved while a spec file shows a diagnostic and
\* the three filtered documents are open
C12_Witness ==
    /\ subscribed /\ ~lintFlag
    /\ ev.kind = "save" /\ ev.doc = "u"
    /\ {"n", "g", "u"} \subseteq open
    /\ HasSet("a") /\ diagnostics["a"] # << >>
    /\ Len(runs) = 1

(***************************************************************************)
(* C13.  lint() called for a spec file on disk while the lint setting is   *)
(* off (by the open or save handler, or by the loop over the open          *)
(* documents at activation) spawns no run, and right after the call the    *)
(* document has no diagnostic set.                                         *)
(***************************************************************************)
C13_DisabledTrigger ==
    [][ /\ (ev'.kind \in {"open", "save"} /\ subscribed /\ ~lintFlag /\ ~Filtered(ev'.doc)) =>
             (runs' = runs /\ ev'.run = 0 /\ ev'.doc \notin DOMAIN diagnostics')
        /\ (ev'.kind = "sanity" /\ subscribed' /\ ~lintFlag) =>
             (runs' = runs /\ \A d \in open : d \notin DOMAIN diagnostics')
      ]_vars

\* C13's witness: a document whose run had published a record is saved with
\* the setting off: no run was added and its set is gone
C13_Witness ==
    /\ ev.kind = "save" /\ subscribed /\ ~lintFlag /\ ~Filtered(ev.doc)
    /\ Len(runs) = 1
    /\ runs[1].doc = ev.doc /\ runs[1].closed /\ runs[1].array # << >>
    /\ ~HasSet(ev.doc)

(***************************************************************************)
(* C14.  The publisher is initialised by the sanity probe only: if the     *)
(* probe exits with a non-zero code, or the lint setting is off when the   *)
(* probe resolves, no handler is registered, no run is spawned and no set  *)
(* exists, ever; and the handlers are registered only after the probe      *)
(* exited (no spawn error) with null or 0 with the setting on.  Line 139   *)
(* reads the setting from the configuration object of line 134, and a      *)
(* spawn error resolves with null: TLC finds this violated.                *)
(***************************************************************************)
NothingPublished == ~subscribed /\ runs = << >> /\ diagnostics = EmptyMap

\* the part on the exit code
C14_NonZeroExitNeverLints ==
    /\ ~subscribed => NothingPublished
    /\ (sanity.state = "exit" /\ sanity.code \notin {NullCode, 0}) => ~subscribed

\* the part on the setting: its value when the probe resolves decides
C14_SettingAtResolution ==
    [][ev'.kind = "sanity" => (subscribed' => lintFlag)]_vars

\* the converse
C14_RegisteredOnlyAfterCleanExit ==
    subscribed => (sanity.state = "exit" /\ sanity.code \in {NullCode, 0})

C14_PublisherGate ==
    /\ []C14_NonZeroExitNeverLints
    /\ C14_SettingAtResolution
    /\ []C14_RegisteredOnlyAfterCleanExit
    /\ [][subscribed' # subscribed => ev'.kind = "sanity"]_vars

(***************************************************************************)
(* C15.  A language-client session exists exactly when rpmspec.lsp was on  *)
(* at activation and the language-server probe ended with a process exit;  *)
(* start is called at most once; neither the sanity probe nor the lint     *)
(* setting has a part in it: their events leave the session and its probe  *)
(* as they are, whichever of the two probes resolves first.                *)
(***************************************************************************)
C15_SessionIffProbeExited ==
    /\ lspClient.started <=> (lspEnabled /\ lspProbe.state = "exit")
    /\ Count(lspTrace, "start") = (IF lspClient.started THEN 1 ELSE 0)

C15_SessionGate ==
    /\ []C15_SessionIffProbeExited
    /\ [][ev'.kind \in {"sanity", "config"} =>
              (lspClient' = lspClient /\ lspTrace' = lspTrace /\ lspProbe' = lspProbe)]_vars

\* C15's witness: the sanity probe had exited with a non-zero code and the
\* lint setting is off when the language-server probe exits: the session is
\* started all the same
C15_Witness ==
    /\ ev.kind = "lspexit"
    /\ sanity = [state |-> "exit", code |-> 1] /\ ~subscribed /\ ~lintFlag
    /\ lspClient.started /\ lspTrace = <<"start">>

(***************************************************************************)
(* C16.  The session does not outlive the extension: no start is called    *)
(* after deactivate() has run, and once deactivate() has run every session *)
(* that was started has been stopped.  deactivate() stops the client that  *)
(* exists when it runs (line 189) and the probe's continuation does not    *)
(* look whether the extension is still active: TLC finds this violated     *)
(* when the probe exits after deactivate().                                *)
(***************************************************************************)
C16_SessionDoesNotOutlive ==
    deactivated =>
        /\ \A i, j \in 1..Len(lspTrace) :
              (lspTrace[i] = "deactivate" /\ lspTrace[j] = "start") => j < i
        /\ Count(lspTrace, "stop") = Count(lspTrace, "start")

(***************************************************************************)
(* C17.  The records of a run are one per matching line it has read, in    *)
(* the order the lines arrived, neither sorted nor de-duplicated; and the  *)
(* run of the 5-line document /ws/pkg.spec that reads                      *)
(*   /ws/pkg.spec:3:W: trailing whitespace                                 *)
(*   /ws/pkg.spec:E: macro undefined                                       *)
(*   unrelated text                                                        *)
(* holds, and publishes when its stream closes, exactly                    *)
(* (2, Warning, trailing whitespace), (0, Error, macro undefined).         *)
(***************************************************************************)
\* the lines of hist the pattern of document d matches, in order
MatchingOf(d, hist) ==
    LET Matches(h) == PatternExec(EscapeRegex(fsPath(d)), h[1]).matched
    IN  SelectSeq(hist, Matches)

ExampleOutput == <<<<ExampleLine1, 5>>, <<ExampleLine2, 5>>, <<ExampleLine3, 5>>>>

ExampleRecords ==
    <<[line |-> 2, severity |-> "Warning",
       message |-> <<"t", "r", "a", "i", "l", "i", "n", "g", " ", "w", "h",
                    "i", "t", "e", "s", "p", "a", "c", "e">>],
      [line |-> 0, severity |-> "Error",
       message |-> <<"m", "a", "c", "r", "o", " ", "u", "n", "d", "e", "f",
                    "i", "n", "e", "d">>]>>

C17_OneRecordPerMatchingLine ==
    /\ \A r \in 1..Len(runs) :
          LET d == runs[r].doc
              m == MatchingOf(d, runs[r].hist)
          IN  /\ Len(runs[r].array) = Len(m)
              /\ \A k \in 1..Len(m) :
                    <<runs[r].array[k]>> = LineDiagnostics(fsPath(d), m[k][2], m[k][1])
              /\ runs[r].hist = ExampleOutput => runs[r].array = ExampleRecords
    /\ (ev.kind = "rclose" /\ runs[ev.run].hist = ExampleOutput) =>
          diagnostics[ev.doc] = ExampleRecords

\* C17's witness: the run that read the three lines of the example has closed
\* and its two records are the set of the document, while another run has
\* read the first line twice and holds the same record twice
C17_Witness ==
    /\ Len(runs) = 2
    /\ ev.kind = "rclose" /\ ev.run = 1
    /\ runs[1].hist = ExampleOutput
    /\ diagnostics["p"] = ExampleRecords
    /\ runs[2].hist = <<<<ExampleLine1, 5>>, <<ExampleLine1, 5>>>>
    /\ Len(runs[2].array) = 2 /\ runs[2].array[1] = runs[2].array[2]

(***************************************************************************)
(* C18.  Only open documents have diagnostics: a document that has been    *)
(* closed has no set (here: no set that holds a record) until it is opened *)
(* again, also when a run of it was in flight when it was closed.  The     *)
(* close callback of such a run publishes its array without looking        *)
(* whether the document is still open: TLC finds this violated.            *)
(***************************************************************************)
C18_OnlyOpenDocumentsHaveSets ==
    \A d \in DOMAIN diagnostics : d \in open \/ diagnostics[d] = << >>

(***************************************************************************)
(* C19.  The sets of different documents are isolated: the close of a      *)
(* run's stream, a run's spawn error, an open or save (with the setting on *)
(* or off) and a document close leave the entry of every document other    *)
(* than theirs as it is.                                                   *)
(***************************************************************************)
SameEntry(d) ==
    /\ (d \in DOMAIN diagnostics') <=> (d \in DOMAIN diagnostics)
    /\ d \in DOMAIN diagnostics => diagnostics'[d] = diagnostics[d]

C19_OtherDocumentsUntouched ==
    [][ev'.kind \in {"rclose", "rerror", "open", "save", "close"} =>
          \A d \in Docs \ {ev'.doc} : SameEntry(d)]_vars

\* C19's witness: runs of "b" and "a"; the stream of the run of "a" has just
\* closed and published its record, and the record of "b" is still there
C19_Witness ==
    /\ Len(runs) = 2 /\ runs[1].doc = "b" /\ runs[2].doc = "a"
    /\ ev.kind = "rclose" /\ ev.run = 2
    /\ runs[1].closed /\ runs[1].array # << >>
    /\ HasSet("a") /\ diagnostics["a"] = runs[2].array /\ runs[2].array # << >>
    /\ HasSet("b") /\ diagnostics["b"] = runs[1].array

(***************************************************************************)
(* C20.  After a lint trigger on a document handled with the setting off,  *)
(* the document has no set that holds a record while the setting stays     *)
(* off.  Stated for the step that follows the trigger, which the claim     *)
(* includes.  A run spawned before the setting was turned off publishes    *)
(* its records when its stream closes (line 115 does not read the          *)
(* setting): TLC finds this violated.                                      *)
(***************************************************************************)
C20_StaysClearedWhileDisabled ==
    [][(/\ ev.kind \in {"open", "save"} /\ ~Filtered(ev.doc)
        /\ subscribed /\ ~lintFlag /\ ~lintFlag')
          => (ev.doc \notin DOMAIN diagnostics' \/ diagnostics'[ev.doc] = << >>)]_vars

====
